---- MODULE Spec2Model ----
(***************************************************************************)
(* Model of the Skolaroid Prisma demo: the User table behind the shared    *)
(* Prisma client and the five route handlers under /api/prisma/user        *)
(* (create, create-many, delete, delete-many, get-all).                    *)
(*                                                                         *)
(* Spec     runs the handlers one request at a time and records the last   *)
(*          request, its response and the store it started from.           *)
(* SpecConc runs up to two requests at once; a request suspends at its     *)
(*          awaited data-access call and other requests run in between.    *)
(* SpecList runs create-one, delete-all and list-all over three clock      *)
(*          values.                                                        *)
(* SpecClient evaluates lib/prisma.ts: loads, development reloads, uses.   *)
(* SpecPage runs the page of page.tsx against the handlers; SpecLoading    *)
(*          runs its four mutating buttons alone, with fair resolution of  *)
(*          their fetches.                                                 *)
(* SpecSchema applies the sign-up and update-password schemas to inputs.   *)
(***************************************************************************)
EXTENDS Integers, Sequences, FiniteSets, TLC

VARIABLES
    db,        \* the rows of the User table
    nextId,    \* next value of the autoincrement sequence of User.id
    issued,    \* history: every id ever given to a row
    now,       \* the database clock read by @default(now()) and @updatedAt
    last,      \* Spec: the last handled request, its response, the store before it
    inflight,  \* SpecConc: the requests being handled, one slot each
    env,           \* process.env.NODE_ENV of the server process
    globalPrisma,  \* global.prisma
    modulePrisma,  \* the export prisma of lib/prisma.ts, NoClient while not evaluated
    constructed,   \* history: the number of calls of createPrismaClient
    usedBy,        \* history: the client each handler ran its last request with
    reloads,       \* history: the number of module reloads
    uiUsers,       \* page.tsx: the state users
    loading,       \* page.tsx: the state loading
    output,        \* page.tsx: the state output
    act,           \* page.tsx: the running handler of a mutating button
    fetches,       \* page.tsx: the runs of fetchAllUsers started by Fetch All Users
    lastClick,     \* history: the last click and the requests sent for it
    lastList,      \* history: how the last ended run of fetchAllUsers ended
    listStale,     \* history: users holds the result of a list fetch issued
                   \* before one whose result was set earlier
    form,          \* the input handed to a validation schema, and which schema
    parsed         \* the result of safeParse on form, NotParsed before

storeVars == <<db, nextId, issued, now>>
clientVars == <<env, globalPrisma, modulePrisma, constructed, usedBy, reloads>>
pageVars == <<uiUsers, loading, output, act, fetches, lastClick, lastList, listStale>>
formVars == <<form, parsed>>

vars == <<db, nextId, issued, now, last, inflight, clientVars, pageVars, formVars>>

----------------------------------------------------------------------------
(* Bounds of the model *)

MaxId == 3
MaxTime == 1
MaxBatch == 3
MaxListTime == 2
MaxClients == 3
MaxReloads == 2

(* Values of request fields.  Absent is a field missing from the JSON body; *)
(* Null is the JSON/SQL null.                                               *)
Absent == "<absent>"
Null == "<null>"
Emails == {"a@x.com", "b@x.com"}
EmailInputs == Emails \cup {"", Absent}
NameInputs == {"n", "", Absent}
IdInputs == 0..MaxId
Reqs == {1, 2}
FetchSlots == {1}

----------------------------------------------------------------------------
(* JavaScript helpers *)

\* !v : the falsy values a string field can take
Falsy(v) == v = Absent \/ v = "" \/ v = Null

\* variant: only a missing value becomes null, an empty string is kept
OrNullKeepsEmpty(v) == IF v = Absent THEN Null ELSE v

\* v || null
OrNull(v) == IF Falsy(v) THEN Null ELSE v

\* error instanceof Error ? error.message : 'Unknown error'
Resp500(message) == [status |-> 500, body |-> [error |-> message]]

Resp400(message) == [status |-> 400, body |-> [error |-> message]]

\* NextResponse.json(payload) : status 200
Resp200(payload) == [status |-> 200, body |-> payload]

JsonSyntaxError == "Unexpected end of JSON input"
ConnectError == "Can't reach database server"
UniqueError == "Unique constraint failed on the fields: email"
NotFoundError == "Record not found"

----------------------------------------------------------------------------
(* The User table: model User { id Int @id @default(autoincrement());      *)
(* email String @unique; name String?; createdAt DateTime @default(now()); *)
(* updatedAt DateTime @updatedAt }                                         *)

Max(S) == CHOOSE x \in S : \A y \in S : y <= x

\* variant: the id of a new row is one more than the largest stored id
AllocIdMaxPlusOne(rows, seqval) ==
    IF rows = {} THEN 1 ELSE Max({u.id : u \in rows}) + 1

\* @default(autoincrement()): the id of a new row is the sequence's next value
AllocId(rows, seqval) == seqval

\* variant: email without @unique
EmailTakenNever(rows, email) == FALSE

\* @unique on email
EmailTaken(rows, email) == \E u \in rows : u.email = email

\* the row an insert writes: both timestamps are the clock at the insert
NewUser(id, data) ==
    [id |-> id, email |-> data.email, name |-> data.name,
     createdAt |-> now, updatedAt |-> now]

\* a sequence value drawn for a row that is then not inserted is lost when
\* burn holds; the schema does not say which, so both are allowed
Burn(seqval, burn) == IF burn THEN seqval + 1 ELSE seqval

\* variant: create behaves as an upsert, a taken email returns the stored row
PrismaCreateUpsert(data, up, burn) ==
    IF ~up
    THEN [ok |-> FALSE, error |-> ConnectError, db |-> db, nextId |-> nextId]
    ELSE IF \E u \in db : u.email = data.email
    THEN [ok |-> TRUE, user |-> CHOOSE u \in db : u.email = data.email,
          db |-> db, nextId |-> nextId]
    ELSE LET u == [id |-> nextId, email |-> data.email, name |-> data.name,
                   createdAt |-> now, updatedAt |-> now]
         IN [ok |-> TRUE, user |-> u, db |-> db \cup {u}, nextId |-> nextId + 1]

\* prisma.user.create({ data })
PrismaCreate(data, up, burn) ==
    IF ~up
    THEN [ok |-> FALSE, error |-> ConnectError, db |-> db, nextId |-> nextId]
    ELSE IF EmailTaken(db, data.email)
    THEN [ok |-> FALSE, error |-> UniqueError, db |-> db,
          nextId |-> Burn(nextId, burn)]
    ELSE LET u == NewUser(AllocId(db, nextId), data)
         IN [ok |-> TRUE, user |-> u, db |-> db \cup {u}, nextId |-> nextId + 1]

\* variant: skipDuplicates compares a row with the stored rows only, not with
\* the earlier rows of the batch
RECURSIVE InsertRowsStoredOnly(_, _, _)
InsertRowsStoredOnly(data, acc, burn) ==
    IF data = <<>> THEN acc
    ELSE LET d == Head(data) IN
         IF \E u \in db : u.email = d.email
         THEN InsertRowsStoredOnly(Tail(data), acc, burn)
         ELSE InsertRowsStoredOnly(Tail(data),
                  [db |-> acc.db \cup {[id |-> acc.nextId, email |-> d.email,
                                        name |-> d.name, createdAt |-> now,
                                        updatedAt |-> now]},
                   nextId |-> acc.nextId + 1,
                   count |-> acc.count + 1], burn)

\* variant: a row whose email is taken refreshes the stored row (on conflict
\* do update) instead of being skipped
RECURSIVE InsertRowsTouchDuplicates(_, _, _)
InsertRowsTouchDuplicates(data, acc, burn) ==
    IF data = <<>> THEN acc
    ELSE LET d == Head(data) IN
         IF \E u \in acc.db : u.email = d.email
         THEN InsertRowsTouchDuplicates(Tail(data),
                  [acc EXCEPT !.db = {IF u.email = d.email
                                      THEN [u EXCEPT !.name = d.name, !.updatedAt = now]
                                      ELSE u : u \in acc.db}], burn)
         ELSE InsertRowsTouchDuplicates(Tail(data),
                  [db |-> acc.db \cup {[id |-> acc.nextId, email |-> d.email,
                                        name |-> d.name, createdAt |-> now,
                                        updatedAt |-> now]},
                   nextId |-> acc.nextId + 1,
                   count |-> acc.count + 1], burn)

\* the rows of a createMany, inserted in order; skipDuplicates: a row whose
\* email is taken (by a stored row or by an earlier row of the batch) is skipped
RECURSIVE InsertRows(_, _, _)
InsertRows(data, acc, burn) ==
    IF data = <<>> THEN acc
    ELSE LET d == Head(data) IN
         IF EmailTaken(acc.db, d.email)
         THEN InsertRows(Tail(data),
                         [acc EXCEPT !.nextId = Burn(@, burn)], burn)
         ELSE InsertRows(Tail(data),
                         [db |-> acc.db \cup {NewUser(AllocId(acc.db, acc.nextId), d)},
                          nextId |-> acc.nextId + 1,
                          count |-> acc.count + 1], burn)

\* variant: the rows are inserted one by one and those before a refused row
\* stay
PrismaCreateManyPartial(data, up, burn) ==
    IF ~up
    THEN [ok |-> FALSE, error |-> ConnectError, db |-> db, nextId |-> nextId]
    ELSE IF \E i \in 1..Len(data) : data[i].email = Absent
    THEN LET k == CHOOSE i \in 1..Len(data) :
                      /\ data[i].email = Absent
                      /\ \A j \in 1..(i - 1) : data[j].email # Absent
             r == InsertRows(SubSeq(data, 1, k - 1),
                             [db |-> db, nextId |-> nextId, count |-> 0], burn)
         IN [ok |-> FALSE, error |-> "Argument email is missing", db |-> r.db,
             nextId |-> r.nextId]
    ELSE LET r == InsertRows(data, [db |-> db, nextId |-> nextId, count |-> 0], burn)
         IN [ok |-> TRUE, count |-> r.count, db |-> r.db, nextId |-> r.nextId]

\* prisma.user.createMany({ data, skipDuplicates: true })
\* (email is a required String: a row without one is refused by the client)
PrismaCreateMany(data, up, burn) ==
    IF \E i \in 1..Len(data) : data[i].email = Absent
    THEN [ok |-> FALSE, error |-> "Argument email is missing", db |-> db,
          nextId |-> nextId]
    ELSE IF ~up
    THEN [ok |-> FALSE, error |-> ConnectError, db |-> db, nextId |-> nextId]
    ELSE LET r == InsertRows(data, [db |-> db, nextId |-> nextId, count |-> 0], burn)
         IN [ok |-> TRUE, count |-> r.count, db |-> r.db, nextId |-> r.nextId]

\* variant: delete of an id no row has does not throw
PrismaDeleteSilent(id, up) ==
    IF ~up
    THEN [ok |-> FALSE, error |-> ConnectError, db |-> db]
    ELSE [ok |-> TRUE, user |-> Null, db |-> {u \in db : u.id # id}]

\* variant: delete removes every row once one matches
PrismaDeleteClears(id, up) ==
    IF ~up
    THEN [ok |-> FALSE, error |-> ConnectError, db |-> db]
    ELSE IF \E u \in db : u.id = id
    THEN [ok |-> TRUE, user |-> CHOOSE v \in db : v.id = id, db |-> {}]
    ELSE [ok |-> FALSE, error |-> NotFoundError, db |-> db]

\* prisma.user.delete({ where: { id } }): throws when no row matches
PrismaDelete(id, up) ==
    IF ~up
    THEN [ok |-> FALSE, error |-> ConnectError, db |-> db]
    ELSE IF \E u \in db : u.id = id
    THEN LET u == CHOOSE v \in db : v.id = id
         IN [ok |-> TRUE, user |-> u, db |-> db \ {u}]
    ELSE [ok |-> FALSE, error |-> NotFoundError, db |-> db]

\* variant: deleteMany throws when no row matches, as delete does
PrismaDeleteManyThrowsEmpty(up) ==
    IF ~up
    THEN [ok |-> FALSE, error |-> ConnectError, db |-> db]
    ELSE IF db = {}
    THEN [ok |-> FALSE, error |-> NotFoundError, db |-> db]
    ELSE [ok |-> TRUE, count |-> Cardinality(db), db |-> {}]

\* prisma.user.deleteMany({ where: {} })
PrismaDeleteMany(up) ==
    IF ~up
    THEN [ok |-> FALSE, error |-> ConnectError, db |-> db]
    ELSE [ok |-> TRUE, count |-> Cardinality(db), db |-> {}]

\* variant: orderBy createdAt 'asc', oldest first
FindManyResultsAsc(rows) ==
    {s \in [1..Cardinality(rows) -> rows] :
        /\ \A i, j \in DOMAIN s : i # j => s[i] # s[j]
        /\ \A i, j \in DOMAIN s : i < j => s[i].createdAt <= s[j].createdAt}

\* the orders findMany({ orderBy: { createdAt: 'desc' } }) may return the rows
\* in: newest first, rows of equal createdAt in any order
FindManyResults(rows) ==
    {s \in [1..Cardinality(rows) -> rows] :
        /\ \A i, j \in DOMAIN s : i # j => s[i] # s[j]
        /\ \A i, j \in DOMAIN s : i < j => s[i].createdAt >= s[j].createdAt}

\* prisma.user.findMany({ orderBy: { createdAt: 'desc' } })
PrismaFindMany(users, up) ==
    IF ~up
    THEN [ok |-> FALSE, error |-> ConnectError]
    ELSE [ok |-> TRUE, users |-> users]

----------------------------------------------------------------------------
(* The route handlers, as the outcome of one request:                       *)
(*   resp    the response,                                                 *)
(*   called  whether the data-access call was made,                        *)
(*   db, nextId  the table and the sequence after the request.             *)
(* up says whether the database server can be reached when the call is     *)
(* made.                                                                   *)

NoCall(resp) == [resp |-> resp, called |-> FALSE, db |-> db, nextId |-> nextId]

\* variant: only a missing email is refused, an empty one goes through
CreateEarlyMissingOnly(body) ==
    IF body.kind # "json" THEN <<Resp500(JsonSyntaxError)>>
    ELSE IF body.email = Absent THEN <<Resp400("Email is required")>>
    ELSE <<>>

\* create/route.ts: what POST answers before it reaches prisma.user.create
\* (<<>> when it goes on to the call)
CreateEarly(body) ==
    IF body.kind # "json" THEN <<Resp500(JsonSyntaxError)>>
    ELSE IF Falsy(body.email) THEN <<Resp400("Email is required")>>
    ELSE <<>>

\* create/route.ts POST
CreateOutcome(body, up, burn) ==
    IF CreateEarly(body) # <<>> THEN NoCall(CreateEarly(body)[1])
    ELSE LET r == PrismaCreate([email |-> body.email, name |-> OrNull(body.name)], up, burn)
         IN [resp |-> IF r.ok
                      THEN Resp200([success |-> TRUE,
                                    message |-> "User created successfully",
                                    user |-> r.user])
                      ELSE Resp500(r.error),
             called |-> TRUE, db |-> r.db, nextId |-> r.nextId]

\* variant: the name of an entry is passed on as it came
MapUsersKeepsName(users) ==
    [i \in 1..Len(users) |-> [email |-> users[i].email, name |-> users[i].name]]

\* users.map((user) => ({ email: user.email, name: user.name || null }))
MapUsers(users) ==
    [i \in 1..Len(users) |-> [email |-> users[i].email, name |-> OrNull(users[i].name)]]

\* variant: an empty array is not refused
CreateManyEarlyArrayOnly(body) ==
    IF body.kind # "json" THEN <<Resp500(JsonSyntaxError)>>
    ELSE IF body.usersType # "array"
    THEN <<Resp400("Users array is required and must not be empty")>>
    ELSE <<>>

\* create-many/route.ts: what POST answers before it reaches createMany
CreateManyEarly(body) ==
    IF body.kind # "json" THEN <<Resp500(JsonSyntaxError)>>
    ELSE IF body.usersType # "array" \/ Len(body.users) = 0
    THEN <<Resp400("Users array is required and must not be empty")>>
    ELSE <<>>

\* create-many/route.ts POST
CreateManyOutcome(body, up, burn) ==
    IF CreateManyEarly(body) # <<>> THEN NoCall(CreateManyEarly(body)[1])
    ELSE LET r == PrismaCreateMany(MapUsers(body.users), up, burn)
         IN [resp |-> IF r.ok
                      THEN Resp200([success |-> TRUE,
                                    message |-> "Users created successfully",
                                    count |-> r.count])
                      ELSE Resp500(r.error),
             called |-> TRUE, db |-> r.db, nextId |-> r.nextId]

\* variant: the id is not looked at before the call
DeleteEarlyNoCheck(body) ==
    IF body.kind # "json" THEN <<Resp500(JsonSyntaxError)>>
    ELSE <<>>

\* !id : undefined, null, the empty string and 0 are falsy
FalsyId(body) ==
    \/ body.idIs \in {"undefined", "null", "empty string"}
    \/ body.idIs = "number" /\ body.id = 0

\* variant: the id is compared with undefined and null only
DeleteEarlyNullish(body) ==
    IF body.kind # "json" THEN <<Resp500(JsonSyntaxError)>>
    ELSE IF body.idIs \in {"undefined", "null"} THEN <<Resp400("User ID is required")>>
    ELSE <<>>

\* delete/route.ts: what DELETE answers before it reaches prisma.user.delete
DeleteEarly(body) ==
    IF body.kind # "json" THEN <<Resp500(JsonSyntaxError)>>
    ELSE IF FalsyId(body) THEN <<Resp400("User ID is required")>>
    ELSE <<>>

\* delete/route.ts DELETE
DeleteOutcome(body, up) ==
    IF DeleteEarly(body) # <<>> THEN NoCall(DeleteEarly(body)[1])
    ELSE LET r == PrismaDelete(body.id, up)
         IN [resp |-> IF r.ok
                      THEN Resp200([success |-> TRUE,
                                    message |-> "User deleted successfully",
                                    user |-> r.user])
                      ELSE Resp500(r.error),
             called |-> TRUE, db |-> r.db, nextId |-> nextId]

\* variant: no try/catch, the exception of the call leaves the handler and
\* the framework answers for it
DeleteManyOutcomeNoCatch(up) ==
    LET r == PrismaDeleteMany(up)
    IN [resp |-> IF r.ok
                 THEN Resp200([success |-> TRUE,
                               message |-> "All users deleted successfully",
                               count |-> r.count])
                 ELSE [status |-> 500, body |-> [uncaught |-> r.error]],
        called |-> TRUE, db |-> r.db, nextId |-> nextId]

\* delete-many/route.ts DELETE
DeleteManyOutcome(up) ==
    LET r == PrismaDeleteMany(up)
    IN [resp |-> IF r.ok
                 THEN Resp200([success |-> TRUE,
                               message |-> "All users deleted successfully",
                               count |-> r.count])
                 ELSE Resp500(r.error),
        called |-> TRUE, db |-> r.db, nextId |-> nextId]

\* variant: an empty result is answered as an error
GetAllOutcomeEmptyIsError(users, up) ==
    LET r == PrismaFindMany(users, up)
    IN [resp |-> IF r.ok /\ r.users # <<>>
                 THEN Resp200([success |-> TRUE, users |-> r.users])
                 ELSE IF r.ok THEN Resp500("No users found")
                 ELSE Resp500(r.error),
        called |-> TRUE, db |-> db, nextId |-> nextId]

\* get-all/route.ts GET
GetAllOutcome(users, up) ==
    LET r == PrismaFindMany(users, up)
    IN [resp |-> IF r.ok
                 THEN Resp200([success |-> TRUE, users |-> r.users])
                 ELSE Resp500(r.error),
        called |-> TRUE, db |-> db, nextId |-> nextId]

----------------------------------------------------------------------------
(* The requests a client can send *)

Unparsable == [kind |-> "unparsable"]

\* delete-many and get-all read no body
NoBody == [kind |-> "none"]

\* { email?, name? }
CreateBodies ==
    {Unparsable} \cup
    {[kind |-> "json", email |-> e, name |-> n] : e \in EmailInputs, n \in NameInputs}

\* { email, name? } entries of a batch
Entries == {[email |-> "a@x.com", name |-> "n"], [email |-> "b@x.com", name |-> Absent]}

Batches == UNION {[1..k -> Entries] : k \in 0..MaxBatch}

\* an entry without an email, and the batches that hold one: alone, or after
\* an entry that has one
BadEntries == {[email |-> Absent, name |-> "n"]}

BadBatches ==
    {<<e>> : e \in BadEntries} \cup {<<g, e>> : g \in Entries, e \in BadEntries}

\* { users? } : users missing, not an array, or an array of entries
CreateManyBodies ==
    {Unparsable} \cup
    {[kind |-> "json", usersType |-> t, users |-> <<>>] : t \in {"absent", "object"}} \cup
    {[kind |-> "json", usersType |-> "array", users |-> b] : b \in Batches \cup BadBatches}

\* { id? } : idIs is the kind of value id has and id its value as a number
\* (0 for undefined, null and the empty string)
DeleteBodies ==
    {Unparsable} \cup
    {[kind |-> "json", hasId |-> FALSE, id |-> 0, idIs |-> "undefined"]} \cup
    {[kind |-> "json", hasId |-> TRUE, id |-> 0, idIs |-> t] :
        t \in {"null", "empty string"}} \cup
    {[kind |-> "json", hasId |-> TRUE, id |-> i, idIs |-> "number"] : i \in IdInputs}

----------------------------------------------------------------------------
(* Spec: one request at a time.                                             *)
(*                                                                         *)
(* last is the record of the latest request: the request, whether the      *)
(* database could be reached, the response, whether the data-access call   *)
(* was made, and the table and the issued ids the request started from.    *)
(* Forget drops the record.  A request is taken right after a recorded one *)
(* (and then keeps a summary of it as prev) only when FollowsUp relates    *)
(* the two; any other sequence of requests goes through Forget, so the     *)
(* table goes through every sequence of requests.                          *)

Idle == [st |-> "idle"]
None == [op |-> "none"]

\* the five route handlers
Handlers == {"create", "create-many", "delete", "delete-many", "get-all"}

\* no client instance: global.prisma undefined, module not evaluated
NoClient == 0

InitStore ==
    /\ db = {}
    /\ nextId = 1
    /\ issued = {}
    /\ now = 0
    /\ last = None
    /\ inflight = [r \in Reqs |-> Idle]

\* a fresh server process running with NODE_ENV = e
InitClient(e) ==
    /\ env = e
    /\ globalPrisma = NoClient
    /\ modulePrisma = NoClient
    /\ constructed = 0
    /\ usedBy = [h \in Handlers |-> NoClient]
    /\ reloads = 0

\* the page as first rendered: useState([]), useState(false), useState('')
InitPage ==
    /\ uiUsers = <<>>
    /\ loading = FALSE
    /\ output = [kind |-> "text", text |-> ""]
    /\ act = [pc |-> "idle"]
    /\ fetches = [i \in FetchSlots |-> [pc |-> "idle"]]
    /\ lastClick = [button |-> "none"]
    /\ lastList = "none"
    /\ listStale = FALSE

NoForm == [schema |-> "none"]
NotParsed == [success |-> FALSE, issues |-> {}, ran |-> FALSE]

InitForm ==
    /\ form = NoForm
    /\ parsed = NotParsed

Init == InitStore /\ InitClient("development") /\ InitPage /\ InitForm

\* the ids of the rows a request inserted
NewIds(o) == {u.id : u \in o.db \ db}

\* the pairs of consecutive requests that are recorded together: a listing
\* after a create-one, a delete-all after a delete-all, a create-one after a
\* create-one of the same email
FollowsUp(op, body) ==
    \/ last.op = "none"
    \/ op = "get-all" /\ last.op = "create"
    \/ op = "delete-many" /\ last.op = "delete-many"
    \/ /\ op = "create" /\ last.op = "create"
       /\ body.kind = "json" /\ last.body.kind = "json"
       /\ body.email = last.body.email /\ ~Falsy(body.email)

\* what is kept of the request before the recorded one: the operation, the
\* email of a create-one, whether the database could be reached, the status
\* and the count of the response, and the table before the request
Summary(rec) ==
    [op |-> rec.op,
     email |-> IF rec.op = "create" /\ rec.body.kind = "json"
               THEN rec.body.email ELSE Absent,
     up |-> rec.up,
     status |-> rec.resp.status,
     count |-> IF rec.resp.status = 200 /\ rec.op \in {"create-many", "delete-many"}
               THEN rec.resp.body.count ELSE 0,
     pre |-> rec.pre]

\* a whole request: the handler runs to its response
Handle(op, body, up, o) ==
    /\ FollowsUp(op, body)
    /\ o.nextId <= MaxId + 1
    /\ db' = o.db
    /\ nextId' = o.nextId
    /\ issued' = issued \cup NewIds(o)
    /\ last' = [op |-> op, body |-> body, up |-> up,
                resp |-> o.resp, called |-> o.called,
                pre |-> db, preIssued |-> issued,
                prev |-> IF last.op = "none" THEN None ELSE Summary(last)]
    /\ UNCHANGED <<now, inflight, clientVars, pageVars, formVars>>

Forget ==
    /\ last.op # "none"
    /\ last' = None
    /\ UNCHANGED <<db, nextId, issued, now, inflight, clientVars, pageVars, formVars>>

\* whether the server can be reached matters only to a request that gets to
\* its data-access call
UpChoices(early) == IF early # <<>> THEN {TRUE} ELSE BOOLEAN

\* whether a lost sequence value is burnt matters only when a row is refused
BurnChoices(early, up, emails) ==
    IF early = <<>> /\ up /\ (emails \cap {u.email : u \in db}) # {}
    THEN BOOLEAN ELSE {FALSE}

CreatePOST ==
    \E body \in CreateBodies :
    \E up \in UpChoices(CreateEarly(body)) :
    \E burn \in BurnChoices(CreateEarly(body), up, {body.email}) :
        Handle("create", body, up, CreateOutcome(body, up, burn))

CreateManyPOST ==
    \E body \in CreateManyBodies :
    \E up \in UpChoices(CreateManyEarly(body)) :
    \E burn \in BOOLEAN :
        Handle("create-many", body, up, CreateManyOutcome(body, up, burn))

DeleteDELETE ==
    \E body \in DeleteBodies :
    \E up \in UpChoices(DeleteEarly(body)) :
        Handle("delete", body, up, DeleteOutcome(body, up))

DeleteManyDELETE ==
    \E up \in BOOLEAN : Handle("delete-many", NoBody, up, DeleteManyOutcome(up))

GetAllGET ==
    \E users \in FindManyResults(db), up \in BOOLEAN :
        Handle("get-all", NoBody, up, GetAllOutcome(users, up))

\* the database clock advances
Tick ==
    /\ now < MaxTime
    /\ now' = now + 1
    /\ UNCHANGED <<db, nextId, issued, last, inflight, clientVars, pageVars, formVars>>

Next ==
    \/ CreatePOST
    \/ CreateManyPOST
    \/ DeleteDELETE
    \/ DeleteManyDELETE
    \/ GetAllGET
    \/ Tick
    \/ Forget

Spec == Init /\ [][Next]_vars

----------------------------------------------------------------------------
(* SpecConc: two requests at a time.  A handler runs from the request to   *)
(* its awaited data-access call (Accept), the database serves the calls    *)
(* one at a time in any order (DbCall), and the response leaves (Reply).   *)
(* The requests are taken from smaller sets than in Spec and the clock     *)
(* stands still.                                                           *)
(*                                                                         *)
(* History kept in the slots: up, whether the database could be reached    *)
(* when the call was served; race, "first" for a create-one whose call is  *)
(* served while a create-one of the same email, an email not stored yet,   *)
(* waits in another slot, and "second" for that other request (marked      *)
(* raced while it waits).                                                  *)

ConcCreateBodies == {b \in CreateBodies : b.kind = "json" /\ b.name = Absent}

ConcCreateManyBodies ==
    {b \in CreateManyBodies :
        /\ b.kind = "json" /\ b.usersType = "array" /\ Len(b.users) <= 2
        /\ b.users \in Batches}

ConcDeleteBodies ==
    {b \in DeleteBodies : b.kind = "json" /\ b.hasId /\ b.idIs = "number"}

\* the handler up to its first await of a data-access call
Accept(r, op, body, early) ==
    /\ inflight[r].st = "idle"
    /\ inflight' = [inflight EXCEPT ![r] =
            IF early # <<>>
            THEN [st |-> "done", op |-> op, body |-> body, resp |-> early[1],
                  called |-> FALSE, up |-> TRUE, race |-> "none"]
            ELSE [st |-> "wait", op |-> op, body |-> body, raced |-> FALSE]]
    /\ UNCHANGED <<db, nextId, issued, now, last, clientVars, pageVars, formVars>>

AcceptCreate(r) ==
    \E body \in ConcCreateBodies : Accept(r, "create", body, CreateEarly(body))

AcceptCreateMany(r) ==
    \E body \in ConcCreateManyBodies :
        Accept(r, "create-many", body, CreateManyEarly(body))

AcceptDelete(r) ==
    \E body \in ConcDeleteBodies : Accept(r, "delete", body, DeleteEarly(body))

AcceptDeleteMany(r) == Accept(r, "delete-many", NoBody, <<>>)

AcceptGetAll(r) == Accept(r, "get-all", NoBody, <<>>)

\* the outcome of the handler of a waiting request
Outcome(op, body, up, burn, users) ==
    CASE op = "create" -> CreateOutcome(body, up, burn)
      [] op = "create-many" -> CreateManyOutcome(body, up, burn)
      [] op = "delete" -> DeleteOutcome(body, up)
      [] op = "delete-many" -> DeleteManyOutcome(up)
      [] op = "get-all" -> GetAllOutcome(users, up)

\* the slots where a create-one of the same email as the create-one of slot r
\* waits for its call
RacePeers(r) ==
    {x \in Reqs \ {r} :
        /\ inflight[r].op = "create"
        /\ inflight[x].st = "wait" /\ inflight[x].op = "create"
        /\ inflight[x].body.email = inflight[r].body.email}

\* the data-access call of request r is served and its handler runs on to
\* the response
DbCall(r) ==
    /\ inflight[r].st = "wait"
    /\ \E up \in BOOLEAN, burn \in BOOLEAN, users \in FindManyResults(db) :
        LET o == Outcome(inflight[r].op, inflight[r].body, up, burn, users)
            first == RacePeers(r) # {} /\ ~EmailTaken(db, inflight[r].body.email)
        IN
        /\ o.nextId <= MaxId + 1
        /\ db' = o.db
        /\ nextId' = o.nextId
        /\ issued' = issued \cup NewIds(o)
        /\ inflight' = [x \in Reqs |->
                IF x = r
                THEN [st |-> "done", op |-> inflight[r].op, body |-> inflight[r].body,
                      resp |-> o.resp, called |-> TRUE, up |-> up,
                      race |-> IF first THEN "first"
                               ELSE IF inflight[r].raced THEN "second" ELSE "none"]
                ELSE IF first /\ x \in RacePeers(r)
                THEN [inflight[x] EXCEPT !.raced = TRUE]
                ELSE inflight[x]]
    /\ UNCHANGED <<now, last, clientVars, pageVars, formVars>>

Reply(r) ==
    /\ inflight[r].st = "done"
    /\ inflight' = [inflight EXCEPT ![r] = Idle]
    /\ UNCHANGED <<db, nextId, issued, now, last, clientVars, pageVars, formVars>>

NextConc ==
    \E r \in Reqs :
        \/ AcceptCreate(r)
        \/ AcceptCreateMany(r)
        \/ AcceptDelete(r)
        \/ AcceptDeleteMany(r)
        \/ AcceptGetAll(r)
        \/ DbCall(r)
        \/ Reply(r)

SpecConc == Init /\ [][NextConc]_vars

----------------------------------------------------------------------------
(* SpecList: one request at a time over three emails and a clock of three  *)
(* values, with the requests that fill, empty and list the table.          *)

ListEmails == Emails \cup {"c@x.com"}

ListCreateBodies == {[kind |-> "json", email |-> e, name |-> Absent] : e \in ListEmails}

ListCreatePOST ==
    \E body \in ListCreateBodies, up \in BOOLEAN :
        Handle("create", body, up, CreateOutcome(body, up, FALSE))

TickList ==
    /\ now < MaxListTime
    /\ now' = now + 1
    /\ UNCHANGED <<db, nextId, issued, last, inflight, clientVars, pageVars, formVars>>

NextList ==
    \/ ListCreatePOST
    \/ DeleteManyDELETE
    \/ GetAllGET
    \/ TickList
    \/ Forget

SpecList == Init /\ [][NextList]_vars

----------------------------------------------------------------------------
(* SpecClient: lib/prisma.ts in one server process.  The module is         *)
(* evaluated when it is first imported and again after a reload; reloads   *)
(* happen in development only (hot module replacement), a production       *)
(* process evaluates a module once.  A client instance is named by the     *)
(* number of the createPrismaClient call that made it.                     *)

\* variant: export const prisma = createPrismaClient(), global.prisma not read
EvalPrismaModuleAlwaysNew(e, g, n) ==
    [prisma |-> n + 1, constructed |-> n + 1,
     global |-> IF e # "production" THEN n + 1 ELSE g]

\* export const prisma = global.prisma || createPrismaClient();
\* if (process.env.NODE_ENV !== 'production') global.prisma = prisma;
\* (e: NODE_ENV, g: global.prisma, n: the clients constructed so far)
EvalPrismaModule(e, g, n) ==
    LET p == IF g # NoClient THEN g ELSE n + 1
    IN [prisma |-> p,
        constructed |-> IF g # NoClient THEN n ELSE n + 1,
        global |-> IF e # "production" THEN p ELSE g]

\* the first import of '@/lib/prisma' since the start or the last reload
LoadModule ==
    /\ modulePrisma = NoClient
    /\ LET m == EvalPrismaModule(env, globalPrisma, constructed) IN
       /\ m.constructed <= MaxClients
       /\ modulePrisma' = m.prisma
       /\ globalPrisma' = m.global
       /\ constructed' = m.constructed
    /\ UNCHANGED <<env, usedBy, reloads, storeVars, last, inflight, pageVars, formVars>>

\* a development reload drops the evaluated module; the global object stays
ReloadModule ==
    /\ env = "development"
    /\ modulePrisma # NoClient
    /\ reloads < MaxReloads
    /\ modulePrisma' = NoClient
    /\ reloads' = reloads + 1
    /\ UNCHANGED <<env, globalPrisma, constructed, usedBy, storeVars, last,
                   inflight, pageVars, formVars>>

\* a request to handler h: the handler calls prisma.user.<op> on the export
\* of the evaluated module
UseClient(h) ==
    /\ modulePrisma # NoClient
    /\ usedBy' = [usedBy EXCEPT ![h] = modulePrisma]
    /\ UNCHANGED <<env, globalPrisma, modulePrisma, constructed, reloads,
                   storeVars, last, inflight, pageVars, formVars>>

NextClient ==
    \/ LoadModule
    \/ ReloadModule
    \/ \E h \in Handlers : UseClient(h)

\* a fresh server process in either environment
InitAnyEnv ==
    /\ InitStore
    /\ InitPage
    /\ InitForm
    /\ \E e \in {"development", "production"} : InitClient(e)

SpecClient == InitAnyEnv /\ [][NextClient]_vars

----------------------------------------------------------------------------
(* SpecPage: the page of page.tsx in one browser tab, and the server that  *)
(* answers its requests.  A click runs the button's handler up to its      *)
(* first await; the handler goes on when the awaited fetch and             *)
(* response.json() resolve (...Response: the server has handled the        *)
(* request) or throw (...Throws: the fetch rejects, before or after the    *)
(* server handled the request, or the body is not JSON).  The response of  *)
(* a list fetch started by Fetch All Users is on the way for a while       *)
(* (ServeFetch, then FetchResponse): loading stays false during that       *)
(* fetch, so other buttons can be clicked meanwhile.  A button can be      *)
(* clicked while it is enabled: disabled={loading}.  Date.now() reads the  *)
(* clock now, which moves on with every request that inserts until it is   *)
(* MaxTime and stands still from then on: the emails of two clicks on a    *)
(* create button are then the same and the second is refused or skipped.   *)
(* One list fetch started by Fetch All Users is followed at a time.        *)

MutatingButtons == {"createSingle", "createMany", "deleteSingle", "deleteMany"}

\* the route each mutating button fetches
HandlerOf(b) ==
    CASE b = "createSingle" -> "create"
      [] b = "createMany" -> "create-many"
      [] b = "deleteSingle" -> "delete"
      [] b = "deleteMany" -> "delete-many"

\* `${who}${Date.now()}@example.com`
StampedEmail(who) == who \o ToString(now) \o "@example.com"

\* variant: Delete Single User asks for the last record of the list
PageBodyLast(b) ==
    CASE b = "createSingle" ->
            [kind |-> "json", email |-> StampedEmail("user"), name |-> "John Doe"]
      [] b = "createMany" ->
            [kind |-> "json", usersType |-> "array",
             users |-> <<[email |-> StampedEmail("alice"), name |-> "Alice"],
                         [email |-> StampedEmail("bob"), name |-> "Bob"],
                         [email |-> StampedEmail("charlie"), name |-> "Charlie"]>>]
      [] b = "deleteSingle" ->
            [kind |-> "json", hasId |-> TRUE, id |-> uiUsers[Len(uiUsers)].id,
             idIs |-> "number"]
      [] b = "deleteMany" -> NoBody

\* body: JSON.stringify(...) of each mutating handler
PageBody(b) ==
    CASE b = "createSingle" ->
            [kind |-> "json", email |-> StampedEmail("user"), name |-> "John Doe"]
      [] b = "createMany" ->
            [kind |-> "json", usersType |-> "array",
             users |-> <<[email |-> StampedEmail("alice"), name |-> "Alice"],
                         [email |-> StampedEmail("bob"), name |-> "Bob"],
                         [email |-> StampedEmail("charlie"), name |-> "Charlie"]>>]
      [] b = "deleteSingle" ->
            [kind |-> "json", hasId |-> TRUE, id |-> uiUsers[1].id, idIs |-> "number"]
      [] b = "deleteMany" -> NoBody

\* setOutput('...') at the start of each mutating handler
BusyText(b) ==
    CASE b = "createSingle" -> "Creating single user..."
      [] b = "createMany" -> "Creating multiple users..."
      [] b = "deleteSingle" -> "Deleting single user..."
      [] b = "deleteMany" -> "Deleting all users..."

Text(t) == [kind |-> "text", text |-> t]

\* variant: a body without users leaves the list as it is
UsersOrEmptyKeeps(data) == IF "users" \in DOMAIN data THEN data.users ELSE uiUsers

\* data.users || []
UsersOrEmpty(data) == IF "users" \in DOMAIN data THEN data.users ELSE <<>>

\* how a run of fetchAllUsers that got the body data ended: with the users of
\* the body, or with [] in their place
ListEnded(data) == IF "users" \in DOMAIN data THEN "users" ELSE "nousers"

\* a list fetch started by Fetch All Users that is still under way when the
\* result of a list fetch issued after it is set
Overtaken(f) == IF f.pc = "idle" THEN f ELSE [f EXCEPT !.overtaken = TRUE]

\* variant: the list is refreshed only after a response that is ok
AfterResponseOkOnly(resp) == IF resp.status = 200 THEN "refresh" ELSE "finally"

\* what a mutating handler does after setOutput(JSON.stringify(data)):
\* await fetchAllUsers(), whatever the response was
AfterResponse(resp) == "refresh"

\* finally { setLoading(false) } : the handler of the mutating button ends
Finally ==
    /\ loading' = FALSE
    /\ act' = [pc |-> "idle"]

\* variant: Fetch All Users is never disabled
DisabledMutatingOnly(b) == loading /\ b \in MutatingButtons

\* disabled={loading} on each of the five buttons
Disabled(b) == loading

\* a click on a mutating button
ClickMutating(b) ==
    /\ ~Disabled(b)
    /\ IF b = "deleteSingle" /\ Len(uiUsers) = 0
       THEN /\ output' = Text("No users to delete")
            /\ lastClick' = [button |-> b, sent |-> <<>>, first |-> "none",
                              status |-> 0, done |-> TRUE]
            /\ UNCHANGED <<loading, act>>
       ELSE /\ loading' = TRUE
            /\ output' = Text(BusyText(b))
            /\ act' = [pc |-> "fetch", button |-> b, body |-> PageBody(b)]
            /\ lastClick' = [button |-> b, sent |-> <<HandlerOf(b)>>,
                              first |-> "pending", status |-> 0, done |-> FALSE]
    /\ UNCHANGED <<uiUsers, fetches, lastList, listStale, storeVars, last,
                   inflight, clientVars, formVars>>

\* the server handles the request of the running mutating handler: the
\* handler of the route runs to its response; the clock has moved on when
\* the next request is served
Served(o) ==
    /\ o.nextId <= MaxId + 1
    /\ db' = o.db
    /\ nextId' = o.nextId
    /\ issued' = issued \cup NewIds(o)
    /\ now' = IF NewIds(o) # {} /\ now < MaxTime THEN now + 1 ELSE now

\* the server answers and the response parses:
\* const data = await response.json(); setOutput(JSON.stringify(data));
\* await fetchAllUsers()
ActResponse ==
    /\ act.pc = "fetch"
    /\ \E up \in BOOLEAN :
        LET o == Outcome(HandlerOf(act.button), act.body, up, FALSE, <<>>) IN
        /\ Served(o)
        /\ output' = [kind |-> "json", data |-> o.resp.body]
        /\ IF AfterResponse(o.resp) = "refresh"
           THEN /\ act' = [pc |-> "refresh", button |-> act.button]
                /\ lastClick' = [lastClick EXCEPT !.sent = Append(@, "get-all"),
                                                   !.first = "answered",
                                                   !.status = o.resp.status]
                /\ UNCHANGED loading
           ELSE /\ Finally
                /\ lastClick' = [lastClick EXCEPT !.first = "answered",
                                                   !.status = o.resp.status,
                                                   !.done = TRUE]
    /\ UNCHANGED <<uiUsers, fetches, lastList, listStale, last, inflight,
                   clientVars, formVars>>

\* variant: loading is set back at the end of the try block, not in a finally
ActThrowsNoFinally ==
    /\ act.pc = "fetch"
    /\ \/ UNCHANGED storeVars
       \/ \E up \in BOOLEAN :
            Served(Outcome(HandlerOf(act.button), act.body, up, FALSE, <<>>))
    /\ output' = Text("Error")
    /\ act' = [pc |-> "idle"]
    /\ lastClick' = [lastClick EXCEPT !.first = "throw", !.done = TRUE]
    /\ UNCHANGED <<loading, uiUsers, fetches, lastList, listStale, last, inflight,
                   clientVars, formVars>>

\* the fetch rejects, before the server handled the request or after it, or
\* the body is not JSON:
\* catch (error) { setOutput(`Error: ${error}`) } finally { ... }
ActThrows ==
    /\ act.pc = "fetch"
    /\ \/ UNCHANGED storeVars
       \/ \E up \in BOOLEAN :
            Served(Outcome(HandlerOf(act.button), act.body, up, FALSE, <<>>))
    /\ output' = Text("Error")
    /\ Finally
    /\ lastClick' = [lastClick EXCEPT !.first = "throw", !.done = TRUE]
    /\ UNCHANGED <<uiUsers, fetches, lastList, listStale, last, inflight,
                   clientVars, formVars>>

\* fetchAllUsers in the running mutating handler, the server answers:
\* setUsers(data.users || []), then the handler's finally
RefreshResponse ==
    /\ act.pc = "refresh"
    /\ \E up \in BOOLEAN, listing \in FindManyResults(db) :
        LET data == GetAllOutcome(listing, up).resp.body IN
        /\ uiUsers' = UsersOrEmpty(data)
        /\ lastList' = ListEnded(data)
    /\ listStale' = FALSE
    /\ fetches' = [i \in FetchSlots |-> Overtaken(fetches[i])]
    /\ Finally
    /\ lastClick' = [lastClick EXCEPT !.done = TRUE]
    /\ UNCHANGED <<output, storeVars, last, inflight, clientVars, formVars>>

\* fetchAllUsers in the running mutating handler, the fetch throws:
\* catch (error) { console.error(...) }, then the handler's finally
RefreshThrows ==
    /\ act.pc = "refresh"
    /\ Finally
    /\ lastClick' = [lastClick EXCEPT !.done = TRUE]
    /\ lastList' = "throw"
    /\ UNCHANGED <<uiUsers, listStale, output, fetches, storeVars, last, inflight,
                   clientVars, formVars>>

\* a click on Fetch All Users: onClick={fetchAllUsers}
ClickFetchAll ==
    /\ ~Disabled("fetchAll")
    /\ \E i \in FetchSlots :
        /\ fetches[i].pc = "idle"
        /\ fetches' = [fetches EXCEPT ![i] = [pc |-> "fetch", overtaken |-> FALSE]]
    /\ lastClick' = [button |-> "fetchAll", sent |-> <<"get-all">>,
                      first |-> "pending", status |-> 0, done |-> FALSE]
    /\ UNCHANGED <<uiUsers, loading, output, act, lastList, listStale, storeVars,
                   last, inflight, clientVars, formVars>>

\* the server handles a list fetch started by Fetch All Users; its response
\* is on the way while other requests are handled
ServeFetch(i) ==
    /\ fetches[i].pc = "fetch"
    /\ \E up \in BOOLEAN, listing \in FindManyResults(db) :
        fetches' = [fetches EXCEPT ![i] =
                       [pc |-> "json", overtaken |-> fetches[i].overtaken,
                        resp |-> GetAllOutcome(listing, up).resp]]
    /\ UNCHANGED <<uiUsers, loading, output, act, lastClick, lastList, listStale,
                   storeVars, last, inflight, clientVars, formVars>>

\* the last click was Fetch All Users and its run of fetchAllUsers ends
FetchDone ==
    IF lastClick.button = "fetchAll"
    THEN [lastClick EXCEPT !.done = TRUE]
    ELSE lastClick

\* fetchAllUsers: setUsers(data.users || [])
FetchResponse(i) ==
    /\ fetches[i].pc = "json"
    /\ uiUsers' = UsersOrEmpty(fetches[i].resp.body)
    /\ lastList' = ListEnded(fetches[i].resp.body)
    /\ listStale' = fetches[i].overtaken
    /\ fetches' = [fetches EXCEPT ![i] = [pc |-> "idle"]]
    /\ lastClick' = FetchDone
    /\ UNCHANGED <<loading, output, act, storeVars, last, inflight, clientVars, formVars>>

\* fetchAllUsers: catch (error) { console.error(...) }
FetchThrows(i) ==
    /\ fetches[i].pc \in {"fetch", "json"}
    /\ fetches' = [fetches EXCEPT ![i] = [pc |-> "idle"]]
    /\ lastClick' = FetchDone
    /\ lastList' = "throw"
    /\ UNCHANGED <<uiUsers, listStale, loading, output, act, storeVars, last,
                   inflight, clientVars, formVars>>

NextPage ==
    \/ \E b \in MutatingButtons : ClickMutating(b)
    \/ ActResponse
    \/ ActThrows
    \/ RefreshResponse
    \/ RefreshThrows
    \/ ClickFetchAll
    \/ \E i \in FetchSlots : ServeFetch(i) \/ FetchResponse(i) \/ FetchThrows(i)

SpecPage == Init /\ [][NextPage]_vars

\* SpecLoading: the four mutating buttons alone.  fetchAllUsers never calls
\* setLoading and the handlers never look at a run started by Fetch All
\* Users, so those runs are left out.  Every fetch of a mutating handler
\* resolves or rejects in the end: the awaited request, then the awaited
\* refresh.
NextLoading ==
    \/ \E b \in MutatingButtons : ClickMutating(b)
    \/ ActResponse
    \/ ActThrows
    \/ RefreshResponse
    \/ RefreshThrows

SpecLoading ==
    /\ Init /\ [][NextLoading]_vars
    /\ WF_vars(ActResponse \/ ActThrows)
    /\ WF_vars(RefreshResponse \/ RefreshThrows)

----------------------------------------------------------------------------
(* SpecSchema: the sign-up and update-password schemas of the validation   *)
(* module.  safeParse checks each field of the object, then runs the       *)
(* refinement of the object unless a field had the wrong type: a string    *)
(* that fails min or email is an issue the parse goes on after, a value    *)
(* that is not a string ends the parse of the object.                      *)

MinPasswordLength == 8

\* password and confirmPassword values: strings of 0, 7, 8, 8 and 9
\* characters, and the field left out
PasswordInputs == {"", "1234567", "12345678", "abcdefgh", "123456789", Absent}

\* email values: well formed, malformed, empty, left out
FormEmails == {"a@x.com", "a.x.com", "", Absent}

\* z.string().email(...)
IsEmail(e) == e \in {"a@x.com"}

Issue(path, message, fatal) == [path |-> path, message |-> message, fatal |-> fatal]

\* z.string() : a value that is not a string
TypeIssues(path, v) ==
    IF v = Absent THEN {Issue(path, "Required", TRUE)} ELSE {}

\* email: z.string().email('Invalid email address')
EmailIssues(v) ==
    IF v = Absent THEN TypeIssues("email", v)
    ELSE IF ~IsEmail(v) THEN {Issue("email", "Invalid email address", FALSE)}
    ELSE {}

\* password: z.string().min(8, 'Password must be at least 8 characters')
PasswordIssues(v) ==
    IF v = Absent THEN TypeIssues("password", v)
    ELSE IF Len(v) < MinPasswordLength
    THEN {Issue("password", "Password must be at least 8 characters", FALSE)}
    ELSE {}

\* confirmPassword: z.string()
ConfirmIssues(v) == TypeIssues("confirmPassword", v)

\* variant: the refinement is skipped after any issue of a field
AbortedOnAnyIssue(issues) == issues # {}

\* the parse of the object ended on a value of the wrong type
Aborted(issues) == \E i \in issues : i.fatal

\* .refine((data) => data.password === data.confirmPassword,
\*         { message: "Passwords don't match", path: ['confirmPassword'] })
Refine(data, issues) ==
    IF ~Aborted(issues) /\ data.password # data.confirmPassword
    THEN issues \cup {Issue("confirmPassword", "Passwords don't match", FALSE)}
    ELSE issues

Result(issues) == [success |-> issues = {}, issues |-> issues, ran |-> TRUE]

\* signUpSchema.safeParse(data)
SignUpParse(data) ==
    Result(Refine(data, EmailIssues(data.email) \cup PasswordIssues(data.password)
                            \cup ConfirmIssues(data.confirmPassword)))

\* updatePasswordSchema.safeParse(data)
UpdatePasswordParse(data) ==
    Result(Refine(data, PasswordIssues(data.password)
                            \cup ConfirmIssues(data.confirmPassword)))

SignUpForms ==
    {[schema |-> "signUp", email |-> e, password |-> pw, confirmPassword |-> c] :
        e \in FormEmails, pw \in PasswordInputs, c \in PasswordInputs}

UpdatePasswordForms ==
    {[schema |-> "updatePassword", password |-> pw, confirmPassword |-> c] :
        pw \in PasswordInputs, c \in PasswordInputs}

InitSchema ==
    /\ InitStore /\ InitClient("development") /\ InitPage
    /\ form \in SignUpForms \cup UpdatePasswordForms
    /\ parsed = NotParsed

SignUpSafeParse ==
    /\ form.schema = "signUp" /\ ~parsed.ran
    /\ parsed' = SignUpParse(form)
    /\ UNCHANGED <<form, storeVars, last, inflight, clientVars, pageVars>>

UpdatePasswordSafeParse ==
    /\ form.schema = "updatePassword" /\ ~parsed.ran
    /\ parsed' = UpdatePasswordParse(form)
    /\ UNCHANGED <<form, storeVars, last, inflight, clientVars, pageVars>>

NextSchema == SignUpSafeParse \/ UpdatePasswordSafeParse

SpecSchema == InitSchema /\ [][NextSchema]_vars

----------------------------------------------------------------------------
(* Properties *)

EmailsOf(rows) == {u.email : u \in rows}

\* the emails a create-one or create-many request asks to insert
ReqEmails(op, body) ==
    IF op = "create" THEN {body.email}
    ELSE {body.users[i].email : i \in 1..Len(body.users)}

NoDupEmail == \A u, v \in db : u.email = v.email => u = v

\* a step in which the data-access call of a create request is served leaves
\* alone every stored row whose email the request asks for
CreateKeepsExisting ==
    \A r \in Reqs :
        (/\ inflight[r].st = "wait"
         /\ inflight'[r].st = "done"
         /\ inflight[r].op \in {"create", "create-many"})
        => \A u \in db :
              u.email \in ReqEmails(inflight[r].op, inflight[r].body) => u \in db'

\* C1: under any interleaving of create-one, create-many, delete-one and
\* delete-all requests no two stored rows share an email, and a create request
\* whose email is already stored leaves the stored row as it was.
C1_UniqueEmail == [] NoDupEmail /\ [][CreateKeepsExisting]_vars

\* two requests in flight for the same email: a create-many that inserted it
\* and a create-one refused for it
C1_Witness ==
    \E r, q \in Reqs :
        /\ r # q
        /\ inflight[r].st = "done" /\ inflight[r].op = "create-many"
        /\ inflight[r].resp.status = 200 /\ inflight[r].resp.body.count = 1
        /\ inflight[q].st = "done" /\ inflight[q].op = "create"
        /\ inflight[q].resp = Resp500(UniqueError)
        /\ inflight[q].body.email \in ReqEmails("create-many", inflight[r].body)
        /\ inflight[q].body.email \in EmailsOf(db)

\* the recorded request is a create-one whose body parsed
IsCreate(rec) == rec.op = "create" /\ rec.body.kind = "json"

\* the users a listing returned with the given email
Listed(resp, email) == {i \in 1..Len(resp.body.users) : resp.body.users[i].email = email}

\* C2 as stated: every create-one with a non-empty email succeeds with the
\* input's email and name and a fresh id, and a listing right after it has
\* exactly one row with that email.
C2_Original ==
    /\ (IsCreate(last) /\ ~Falsy(last.body.email))
        => /\ last.resp.status = 200
           /\ last.resp.body.user.email = last.body.email
           /\ last.resp.body.user.name =
                  (IF last.body.name = Absent THEN Null ELSE last.body.name)
           /\ last.resp.body.user.id \notin last.preIssued
    /\ (last.op = "get-all" /\ last.prev.op = "create" /\ ~Falsy(last.prev.email))
        => /\ last.resp.status = 200
           /\ Cardinality(Listed(last.resp, last.prev.email)) = 1

\* C2 amended: a create-one with a non-empty email that is not stored yet,
\* served while the database can be reached, succeeds; the returned user has
\* the input's email, the input's name (null when the name is omitted or
\* empty) and an id never issued before; a listing served right after it has
\* exactly one row with that email.
C2_CreateReturnsInput ==
    /\ (/\ IsCreate(last) /\ ~Falsy(last.body.email)
        /\ last.body.email \notin EmailsOf(last.pre) /\ last.up)
        => /\ last.resp.status = 200
           /\ last.resp.body.success
           /\ last.resp.body.user.email = last.body.email
           /\ last.resp.body.user.name =
                  (IF last.body.name \in {Absent, ""} THEN Null ELSE last.body.name)
           /\ last.resp.body.user.id \notin last.preIssued
           /\ db = last.pre \cup {last.resp.body.user}
    /\ (/\ last.op = "get-all" /\ last.up
        /\ last.prev.op = "create" /\ last.prev.status = 200)
        => /\ last.resp.status = 200
           /\ Cardinality(Listed(last.resp, last.prev.email)) = 1

\* a listing right after a successful create-one into a table that already
\* had a row
C2_Witness ==
    /\ last.op = "get-all" /\ last.up
    /\ last.prev.op = "create" /\ last.prev.status = 200
    /\ last.prev.pre # {}
    /\ Len(last.resp.body.users) = 2

\* C3: a create-one whose email is missing or empty is answered 400 with an
\* error message, without a data-access call, and the table is left as it was.
C3_CreateMissingEmail400 ==
    (IsCreate(last) /\ last.body.email \in {Absent, ""})
    => /\ last.resp = Resp400("Email is required")
       /\ ~last.called
       /\ db = last.pre

C3_Witness ==
    /\ IsCreate(last) /\ last.body.email = "" /\ last.body.name = "n"
    /\ last.resp.status = 400 /\ last.pre # {}

\* two create-one requests in a row with the same non-empty email
CreateTwice ==
    /\ IsCreate(last) /\ last.prev.op = "create"
    /\ last.body.email = last.prev.email
    /\ ~Falsy(last.body.email)

\* C4 as stated: of two create-one requests in a row with the same email the
\* first succeeds, the second is answered 500, and the table grows by one row.
C4_Original ==
    CreateTwice
    => /\ last.prev.status = 200
       /\ last.resp.status = 500
       /\ Cardinality(db) = Cardinality(last.prev.pre) + 1

\* C4 amended: when the email is not stored before the first request and the
\* database can be reached while the first is served, the first succeeds, the
\* second is answered 500 with an error message, and the table has grown by
\* exactly one row over the two.
C4_SecondCreateFails ==
    (/\ CreateTwice
     /\ last.body.email \notin EmailsOf(last.prev.pre)
     /\ last.prev.up)
    => /\ last.prev.status = 200
       /\ last.resp.status = 500
       /\ last.resp.body.error \in {UniqueError, ConnectError}
       /\ Cardinality(db) = Cardinality(last.prev.pre) + 1
       /\ db = last.pre

C4_Witness ==
    /\ CreateTwice /\ last.prev.status = 200
    /\ last.up /\ last.resp = Resp500(UniqueError)

\* C5: an id given to a row is never given to a later row, also after the
\* first row was removed by delete-one or delete-all.
C5_IdNeverReused ==
    last.op # "none" => {u.id : u \in db \ last.pre} \cap last.preIssued = {}

\* a row is inserted after a row that had been given an id was removed
C5_Witness ==
    /\ last.op \in {"create", "create-many"}
    /\ db \ last.pre # {}
    /\ \E i \in last.preIssued : i \notin {u.id : u \in last.pre}

\* the recorded request is a create-many whose body parsed
IsCreateMany(rec) == rec.op = "create-many" /\ rec.body.kind = "json"

\* ... and whose users field is a non-empty array of entries with an email
IsBatch(rec) ==
    /\ IsCreateMany(rec) /\ rec.body.usersType = "array" /\ Len(rec.body.users) > 0
    /\ \A i \in 1..Len(rec.body.users) : rec.body.users[i].email # Absent

\* what a batch is to do: one new row for each email of the list that was not
\* stored, nothing else touched, and the number of new rows reported
BatchInserted ==
    LET new == db \ last.pre
        want == ReqEmails("create-many", last.body) \ EmailsOf(last.pre)
    IN /\ last.resp.status = 200
       /\ last.resp.body.success
       /\ last.pre \subseteq db
       /\ EmailsOf(new) = want
       /\ Cardinality(new) = Cardinality(want)
       /\ last.resp.body.count = Cardinality(new)

C7_CreateManyNoUsers400 ==
    (IsCreateMany(last) /\ (last.body.usersType # "array" \/ last.body.users = <<>>))
    => /\ last.resp = Resp400("Users array is required and must not be empty")
       /\ ~last.called
       /\ db = last.pre

C7_Witness ==
    /\ IsCreateMany(last) /\ last.body.usersType = "array" /\ last.body.users = <<>>
    /\ last.resp.status = 400 /\ last.pre # {}

\* the recorded request is a delete-one whose body parsed and holds an id
IsDelete(rec) == rec.op = "delete" /\ rec.body.kind = "json" /\ rec.body.hasId

\* ... an id that no stored row has
NoSuchId(rec) == IsDelete(rec) /\ rec.body.id \notin {u.id : u \in rec.pre}

C9_DeleteRemovesOne ==
    (last.op = "delete" /\ last.resp.status = 200)
    => /\ last.resp.body.user \in last.pre
       /\ last.resp.body.user.id = last.body.id
       /\ db = last.pre \ {last.resp.body.user}
       /\ Cardinality(db) = Cardinality(last.pre) - 1

C9_Witness ==
    /\ last.op = "delete" /\ last.resp.status = 200
    /\ Cardinality(last.pre) = 2 /\ Cardinality(db) = 1

\* C10: a delete-one with no id in its body is answered 400 with a validation
\* error, without a data-access call.
C10_DeleteNoId400 ==
    (last.op = "delete" /\ last.body.kind = "json" /\ ~last.body.hasId)
    => /\ last.resp = Resp400("User ID is required")
       /\ ~last.called
       /\ db = last.pre

C10_Witness ==
    /\ last.op = "delete" /\ last.body.kind = "json" /\ ~last.body.hasId
    /\ last.resp.status = 400 /\ last.pre # {}

\* C11: a delete-all served while the database can be reached succeeds with
\* count equal to the number of stored rows and leaves the table empty; a
\* delete-all served right after it, on the now empty table, succeeds with
\* count 0.
C11_DeleteAllCount ==
    /\ (last.op = "delete-many" /\ last.up)
        => /\ last.resp.status = 200
           /\ last.resp.body.success
           /\ last.resp.body.count = Cardinality(last.pre)
           /\ db = {}
    /\ (/\ last.op = "delete-many" /\ last.up
        /\ last.prev.op = "delete-many" /\ last.prev.status = 200)
        => /\ last.pre = {}
           /\ last.resp.status = 200
           /\ last.resp.body.count = 0

\* a delete-all of two rows followed by a delete-all of none
C11_Witness ==
    /\ last.op = "delete-many" /\ last.up
    /\ last.prev.op = "delete-many" /\ last.prev.status = 200
    /\ last.prev.count = 2 /\ Cardinality(last.prev.pre) = 2
    /\ last.resp.status = 200 /\ last.resp.body.count = 0

\* the rows of a listing, as a set
ListedRows(resp) == {resp.body.users[i] : i \in 1..Len(resp.body.users)}

\* C12: the list a list-all returns holds every stored row, no row twice, and
\* is ordered by createdAt descending (rows created at t1 < t2 < t3 come as
\* t3, t2, t1); a list-all served while the database can be reached returns
\* such a list.
C12_ListAllNewestFirst ==
    /\ (last.op = "get-all" /\ last.up) => last.resp.status = 200
    /\ (last.op = "get-all" /\ last.resp.status = 200)
        => LET us == last.resp.body.users IN
           /\ last.resp.body.success
           /\ ListedRows(last.resp) = db
           /\ Len(us) = Cardinality(db)
           /\ \A i, j \in 1..Len(us) : i < j => us[i].createdAt >= us[j].createdAt
           /\ \A i, j \in 1..Len(us) :
                 us[i].createdAt > us[j].createdAt => i < j

\* three rows created at three different times, listed newest first
C12_Witness ==
    /\ last.op = "get-all" /\ last.resp.status = 200
    /\ Len(last.resp.body.users) = 3
    /\ last.resp.body.users[1].createdAt > last.resp.body.users[2].createdAt
    /\ last.resp.body.users[2].createdAt > last.resp.body.users[3].createdAt

\* C13 as stated: every list-all on an empty table is answered with success
\* and an empty list, never with an error.
C13_Original ==
    (last.op = "get-all" /\ last.pre = {})
    => last.resp = Resp200([success |-> TRUE, users |-> <<>>])

\* C13 amended: a list-all on an empty table that is served while the
\* database can be reached is answered with success and an empty list, not
\* with an error and not with null.
C13_ListAllEmpty ==
    (last.op = "get-all" /\ last.pre = {} /\ last.up)
    => last.resp = Resp200([success |-> TRUE, users |-> <<>>])

\* a listing of a table that had rows and was emptied
C13_Witness ==
    /\ last.op = "get-all" /\ last.up /\ last.pre = {} /\ last.preIssued # {}
    /\ last.resp.status = 200 /\ last.resp.body.users = <<>>

\* the message of the exception the data-access call of the recorded request
\* raised, <<>> when the call was not made or raised none
Raised(rec) ==
    IF ~rec.called THEN <<>>
    ELSE IF rec.op = "create-many"
            /\ \E i \in 1..Len(rec.body.users) : rec.body.users[i].email = Absent
    THEN <<"Argument email is missing">>
    ELSE IF ~rec.up THEN <<ConnectError>>
    ELSE IF rec.op = "create" /\ rec.body.email \in EmailsOf(rec.pre)
    THEN <<UniqueError>>
    ELSE IF rec.op = "delete" /\ rec.body.id \notin {u.id : u \in rec.pre}
    THEN <<NotFoundError>>
    ELSE <<>>

\* C14: in each of the five handlers an exception raised by the data-access
\* call is answered with status 500 and a body that holds the exception's
\* message under error and nothing else; every request ends in a response of
\* the handler.
C14_ExceptionBecomes500 ==
    last.op # "none"
    => /\ last.resp.status \in {200, 400, 500}
       /\ Raised(last) # <<>>
           => /\ last.resp.status = 500
              /\ DOMAIN last.resp.body = {"error"}
              /\ last.resp.body.error = Raised(last)[1]
       /\ (last.called /\ Raised(last) = <<>>) => last.resp.status = 200

\* a delete-all of a table with rows while the database cannot be reached
C14_Witness ==
    /\ last.op = "delete-many" /\ ~last.up /\ last.pre # {}
    /\ last.resp = Resp500(ConnectError)

\* the recorded request lacks its required field, or holds it empty or
\* malformed: a body that does not parse, an email, users or id that is
\* missing or empty, users that is not an array, an entry without an email
Malformed(rec) ==
    /\ rec.op \in {"create", "create-many", "delete"}
    /\ \/ rec.body.kind = "unparsable"
       \/ rec.op = "create" /\ rec.body.email \in {Absent, ""}
       \/ /\ rec.op = "create-many"
          /\ \/ rec.body.usersType # "array"
             \/ rec.body.users = <<>>
             \/ \E i \in 1..Len(rec.body.users) : rec.body.users[i].email = Absent
       \/ rec.op = "delete" /\ ~rec.body.hasId

\* C15 as stated: a create-one, create-many or delete-one request whose
\* required field is absent, empty or malformed is answered 400 with a
\* message, and no data-access call is made for it.
C15_Original ==
    (last.op # "none" /\ Malformed(last))
    => /\ last.resp.status = 400
       /\ ~last.called

\* slots r and q hold the responses of two create-one requests of the same
\* email, new when the first call was served, that waited for their calls at
\* the same time
Raced(r, q) ==
    /\ inflight[r].st = "done" /\ inflight[r].race = "first"
    /\ inflight[q].st = "done" /\ inflight[q].race = "second"
    /\ inflight[q].op = "create"
    /\ inflight[q].body.email = inflight[r].body.email

\* one of the two succeeded, the other was answered 500, and the table has
\* one row of the email
OneWins(r, q) ==
    /\ {inflight[r].resp.status, inflight[q].resp.status} = {200, 500}
    /\ Cardinality({u \in db : u.email = inflight[r].body.email}) = 1

\* C16 as stated: of two create-one requests of the same new email handled
\* concurrently exactly one succeeds, the other is answered 500, and the
\* table ends with exactly one row of that email.
C16_Original == \A r, q \in Reqs : Raced(r, q) => OneWins(r, q)

\* C16 amended: the same, provided the database can be reached when at least
\* one of the two data-access calls is served.
C16_ConcurrentCreateOneWins ==
    \A r, q \in Reqs :
        (Raced(r, q) /\ (inflight[r].up \/ inflight[q].up)) => OneWins(r, q)

\* both calls served with the database reachable: the first served won, the
\* second was refused by the unique constraint
C16_Witness ==
    \E r, q \in Reqs :
        /\ Raced(r, q) /\ inflight[r].up /\ inflight[q].up
        /\ inflight[r].resp.status = 200
        /\ inflight[q].resp = Resp500(UniqueError)
        /\ Cardinality(db) = 2

\* C18: a create-one request or a create-many entry without a name (or with
\* an empty one) is not refused for it: where a request with a name gets its
\* row created, it gets its row created too, and the row's name is null.
C18_NameOmittedIsNull ==
    /\ (/\ IsCreate(last) /\ Falsy(last.body.name) /\ ~Falsy(last.body.email)
        /\ last.up /\ last.body.email \notin EmailsOf(last.pre))
        => /\ last.resp.status = 200
           /\ last.resp.body.user.name = Null
           /\ last.resp.body.user \in db
    /\ (IsBatch(last) /\ last.up)
        => /\ last.resp.status = 200
           /\ \A u \in db \ last.pre :
                 \A i \in 1..Len(last.body.users) :
                    (/\ last.body.users[i].email = u.email
                     /\ Falsy(last.body.users[i].name)
                     /\ \A j \in 1..(i - 1) : last.body.users[j].email # u.email)
                    => u.name = Null

\* a batch with a named and an unnamed entry, both inserted
C18_Witness ==
    /\ IsBatch(last) /\ last.up /\ last.resp.status = 200
    /\ \E u, v \in db \ last.pre : u.name = Null /\ v.name = "n"

\* a row that is still stored after a step has kept all its fields
RecordsKept == \A u \in db : (\E v \in db' : v.id = u.id) => u \in db'

\* C19: no request changes a stored record: from its creation to its deletion
\* a row keeps its id, email, name, createdAt and updatedAt, whatever requests
\* are handled in between.
C19_RecordsImmutable == [][RecordsKept]_vars

\* a create-many that named the email of a row stored at an earlier time and
\* left that row as it was
C19_Witness ==
    /\ IsBatch(last) /\ last.up /\ last.resp.status = 200
    /\ \E u \in last.pre :
          /\ u.email \in ReqEmails("create-many", last.body)
          /\ u.updatedAt < now
          /\ u \in db
    /\ db # last.pre

\* at most one client was constructed and the handlers all ran with it
OneClient ==
    /\ constructed <= 1
    /\ modulePrisma \in {NoClient, 1}
    /\ \A h \in Handlers : usedBy[h] \in {NoClient, 1}

\* a step in which a handler serves a request constructs no client
RequestConstructsNone == usedBy' # usedBy => constructed' = constructed

\* in development, once global.prisma is set no step constructs a client
ReloadReuses ==
    (env = "development" /\ globalPrisma # NoClient)
    => /\ constructed' = constructed
       /\ globalPrisma' = globalPrisma
       /\ modulePrisma' \in {NoClient, globalPrisma}

\* C17: within one process the client is constructed at most once, every
\* handler runs with that one instance, no request constructs a client, and
\* in development a module reload takes the instance kept on the global
\* object instead of constructing another.
C17_ClientConstructedOnce ==
    [] OneClient /\ [][RequestConstructsNone /\ ReloadReuses]_vars

\* development, the module evaluated again after two reloads, every handler
\* having served a request
C17_Witness ==
    /\ env = "development" /\ reloads = MaxReloads
    /\ modulePrisma # NoClient /\ modulePrisma = globalPrisma
    /\ constructed = 1
    /\ \A h \in Handlers : usedBy[h] # NoClient

\* the requests a finished click on a mutating button has sent, by what
\* became of its first request
SentWhenDone(click) ==
    IF click.first = "none" THEN <<>>
    ELSE IF click.first = "throw" THEN <<HandlerOf(click.button)>>
    ELSE <<HandlerOf(click.button), "get-all">>

\* C20 as stated: a click on a mutating button sends one request to the
\* button's handler and then one list-all fetch, whatever became of the first
\* request; a click on Fetch All Users sends only the list-all fetch.
C20_Original ==
    /\ (lastClick.button \in MutatingButtons /\ lastClick.done)
        => lastClick.sent = <<HandlerOf(lastClick.button), "get-all">>
    /\ lastClick.button = "fetchAll" => lastClick.sent = <<"get-all">>

\* C20 amended: a click on a mutating button sends one request to the
\* button's handler and, when the response to it has arrived and parsed,
\* whatever its status, one list-all fetch; it sends no list-all fetch when
\* the first request throws, and no request at all when the button is
\* Delete Single User and the list held by the page is empty.  A click on
\* Fetch All Users sends only the list-all fetch.
C20_ClickSendsThenRefreshes ==
    /\ lastClick.button \in MutatingButtons
        => /\ lastClick.done => lastClick.sent = SentWhenDone(lastClick)
           /\ ~lastClick.done
               => /\ lastClick.sent \in {<<HandlerOf(lastClick.button)>>,
                                         <<HandlerOf(lastClick.button), "get-all">>}
                  /\ lastClick.first \in {"pending", "answered"}
                  /\ lastClick.first = "pending" <=> Len(lastClick.sent) = 1
           /\ lastClick.first = "none" => lastClick.button = "deleteSingle"
    /\ lastClick.button = "fetchAll" => lastClick.sent = <<"get-all">>

\* a finished click whose first request was answered 500 and was followed by
\* the list-all fetch
C20_Witness ==
    /\ lastClick.button \in MutatingButtons /\ lastClick.done
    /\ lastClick.first = "answered" /\ lastClick.status = 500
    /\ lastClick.sent = <<HandlerOf(lastClick.button), "get-all">>
    /\ db # {}

\* C21 (as claimed): the list the page holds is the result of the most
\* recently issued list fetch: once the result of a list fetch has been set,
\* the result of a list fetch issued before it is never set over it
C21_Original == ~listStale

\* a step that starts the request of Delete Single User
DeleteSingleSends ==
    (act.pc = "idle" /\ act'.pc = "fetch" /\ act'.button = "deleteSingle")
    => /\ Len(uiUsers) > 0
       /\ act'.body = [kind |-> "json", hasId |-> TRUE, id |-> uiUsers[1].id,
                        idIs |-> "number"]
       /\ \A j \in 1..Len(uiUsers) : uiUsers[1].createdAt >= uiUsers[j].createdAt
       /\ lastClick'.sent = <<"delete">>
       /\ loading'

\* a click on Delete Single User while the list is empty
DeleteSingleEmpty ==
    (/\ lastClick' # lastClick
     /\ lastClick'.button = "deleteSingle"
     /\ lastClick'.first \in {"none", "pending"}
     /\ uiUsers = <<>>)
    => /\ lastClick'.sent = <<>>
       /\ act' = act /\ act.pc = "idle"
       /\ ~loading /\ ~loading'
       /\ output' = Text("No users to delete")
       /\ UNCHANGED <<storeVars, uiUsers>>

\* C22: Delete Single User sends a delete-one request for the id of the first
\* record of the list the page holds, which is a newest record of that list;
\* clicked while the list is empty it sends nothing, leaves loading false and
\* sets the output to 'No users to delete'
C22_DeleteSingleFirstRecord == [][DeleteSingleSends /\ DeleteSingleEmpty]_vars

\* a delete-one request for the first of two records with different ages is
\* under way
C22_Witness ==
    /\ act.pc = "fetch" /\ act.button = "deleteSingle"
    /\ Len(uiUsers) >= 2
    /\ act.body.id = uiUsers[1].id
    /\ uiUsers[1].createdAt > uiUsers[Len(uiUsers)].createdAt

LoadingWhileRunning == loading <=> act.pc # "idle"

\* C24: a mutating handler sets loading before its request and sets it back
\* when it ends, after a success, an error body or a throw; when every fetch
\* resolves or rejects, loading is false again after every click
C24_LoadingBracketsAction == [] LoadingWhileRunning /\ (loading ~> ~loading)

\* the handler of a mutating button has ended in its catch and loading is
\* false again
C24_Witness ==
    /\ lastClick.button \in MutatingButtons
    /\ lastClick.first = "throw" /\ lastClick.done
    /\ act.pc = "idle" /\ ~loading

\* a step in which a button is clicked and its handler starts
ClickStep ==
    /\ lastClick' # lastClick
    /\ \/ lastClick'.first = "pending" /\ ~lastClick'.done
       \/ lastClick'.first = "none"

\* C25: the five buttons are disabled while loading is true: while the
\* handler of a mutating button runs loading is true, and no click on any
\* button starts a handler then, so one mutating action at most is in flight
C25_OneActionAtATime ==
    /\ [] (act.pc # "idle" => loading)
    /\ [][ClickStep => (~loading /\ act.pc = "idle")]_vars

\* a mutating action is in flight, with the buttons disabled, while the
\* response of a list fetch started earlier by Fetch All Users is on the way
C25_Witness ==
    /\ loading /\ act.pc = "fetch"
    /\ \E i \in FetchSlots : fetches[i].pc = "json"
    /\ \A b \in MutatingButtons \cup {"fetchAll"} : Disabled(b)

\* a step in which a run of fetchAllUsers ends
ListRunEnds ==
    \/ act.pc = "refresh" /\ act'.pc = "idle"
    \/ \E i \in FetchSlots : fetches[i].pc # "idle" /\ fetches'[i].pc = "idle"

\* C26: a list fetch answered with a body that has no users field empties
\* the list the page holds; a list fetch that throws leaves the list as it was
C26_ListFetchFailure ==
    [][/\ (ListRunEnds /\ lastList' = "nousers") => uiUsers' = <<>>
       /\ (ListRunEnds /\ lastList' = "throw") => uiUsers' = uiUsers]_vars

\* Delete Single User was clicked on a list with a record, its request
\* failed, its refresh was answered with an error body and the page holds no
\* user although the table has rows
C26_Witness ==
    /\ lastClick.button = "deleteSingle" /\ lastClick.done
    /\ lastClick.first = "answered" /\ lastClick.status = 500
    /\ \A i \in FetchSlots : fetches[i].pc = "idle" /\ ~listStale
    /\ lastList = "nousers" /\ uiUsers = <<>> /\ db # {}

\* the last request was a delete-one whose id is present and falsy
FalsyIdGiven(rec) ==
    /\ rec.op = "delete" /\ rec.body.kind = "json" /\ rec.body.hasId
    /\ \/ rec.body.idIs \in {"null", "empty string"}
       \/ rec.body.idIs = "number" /\ rec.body.id = 0

\* C27: a delete-one request whose id is 0, null or the empty string is
\* answered 400 'User ID is required' without a data-access call, the table
\* left as it was
C27_FalsyIdIsAbsent ==
    FalsyIdGiven(last)
    => /\ last.resp = Resp400("User ID is required")
       /\ ~last.called
       /\ db = last.pre

\* a delete-one request with id 0 was answered 400 while the table had rows
C27_Witness ==
    /\ FalsyIdGiven(last) /\ last.body.idIs = "number"
    /\ last.pre # {}
    /\ last.resp.status = 400

Mismatch == Issue("confirmPassword", "Passwords don't match", FALSE)

\* a parsed input is accepted only with a password of 8 characters or more
\* and a confirmPassword equal to it
AcceptedOnlyWhenValid ==
    (parsed.ran /\ parsed.success)
    => /\ form.password # Absent /\ Len(form.password) >= MinPasswordLength
       /\ form.confirmPassword = form.password

\* the fields of the input are all strings
AllStrings ==
    /\ form.password # Absent /\ form.confirmPassword # Absent
    /\ form.schema = "signUp" => form.email # Absent

\* C28 (as claimed): the sign-up and update-password schemas accept an input
\* only when password has 8 characters or more and confirmPassword equals
\* it; when the two differ the input is rejected with "Passwords don't match"
\* on confirmPassword
C28_Original ==
    /\ AcceptedOnlyWhenValid
    /\ (parsed.ran /\ form.confirmPassword # form.password)
       => (~parsed.success /\ Mismatch \in parsed.issues)

\* C28 (amended): the schemas accept an input only when password has 8
\* characters or more and confirmPassword equals it; when the two differ and
\* every field of the input is a string the input is rejected with
\* "Passwords don't match" on confirmPassword
C28_SchemasCheckPasswords ==
    /\ AcceptedOnlyWhenValid
    /\ (parsed.ran /\ AllStrings /\ form.confirmPassword # form.password)
       => (~parsed.success /\ Mismatch \in parsed.issues)

\* sign-up input with a malformed email, a password of 7 characters and a
\* different confirmPassword: rejected for all three
C28_Witness ==
    /\ parsed.ran /\ form.schema = "signUp"
    /\ form.email = "a.x.com"
    /\ form.password = "1234567" /\ form.confirmPassword = "12345678"
    /\ Mismatch \in parsed.issues
    /\ Cardinality(parsed.issues) = 3

====
